---- MODULE Spec2Model ----
(***************************************************************************)
(* State-machine model of src/knock-knock.js: the schema registry of the   *)
(* KnockKnock class, its default-schema cache, the resolver, the request   *)
(* parameter extractor, the login/auth execution engine and the            *)
(* middleware closures generated by createOptionalMethods.                 *)
(***************************************************************************)
EXTENDS Integers, Sequences, FiniteSets, TLC

(* ---------------------------------------------------------------------- *)
(* JavaScript values                                                       *)
(* ---------------------------------------------------------------------- *)
Undef == "undefined"
Null == "null"
Empty == ""
JTrue == "true"
JFalse == "false"

\* JavaScript truthiness of the values the model uses.
Truthy(v) ==
    v \notin {Undef, Null, Empty, JFalse}

\* a || b
Or(a, b) ==
    IF Truthy(a) THEN a ELSE b

(* ---------------------------------------------------------------------- *)
(* Bounds and input universes                                              *)
(* ---------------------------------------------------------------------- *)
\* number of request slots (requests that may be in flight together)
MaxReq == 1
\* number of middleware closures built from the factories
MaxMw == 1

\* names schemas are registered under
Names == {"a", "b"}

\* schema objects handed to enable
SchemaObjs == {"S1", "S2", "S3"}

Types == {"login", "auth"}

(* ---------------------------------------------------------------------- *)
(* Schema capability model                                                 *)
(* ---------------------------------------------------------------------- *)
interface ==
    [login |-> "knockLogin", auth |-> "knockAuth"]

lazy ==
    [login |-> {"login", "oauthLogin", "oauthCallback"},
     auth  |-> {"auth", "revoke"}]

\* The own properties of the schema objects of the universe; a property
\* holds a function (named by its identity) or is undefined.
\*   S1: login === knockLogin, auth === knockAuth, every hook, revoke
\*   S2: knockLogin and knockAuth only
\*   S3: auth === knockAuth and create, no login capability
SchemaProps ==
    [S1 |-> [knockLogin |-> "S1.knockLogin", login |-> "S1.knockLogin",
             knockAuth |-> "S1.knockAuth", auth |-> "S1.knockAuth",
             create |-> "S1.create", loginResponse |-> "S1.loginResponse",
             authResponse |-> "S1.authResponse", revoke |-> "S1.revoke",
             oauthLogin |-> Undef, oauthCallback |-> Undef],
     S2 |-> [knockLogin |-> "S2.knockLogin", login |-> Undef,
             knockAuth |-> "S2.knockAuth", auth |-> Undef,
             create |-> Undef, loginResponse |-> Undef,
             authResponse |-> Undef, revoke |-> Undef,
             oauthLogin |-> Undef, oauthCallback |-> Undef],
     S3 |-> [knockLogin |-> Undef, login |-> Undef,
             knockAuth |-> "S3.knockAuth", auth |-> "S3.knockAuth",
             create |-> "S3.create", loginResponse |-> Undef,
             authResponse |-> Undef, revoke |-> Undef,
             oauthLogin |-> Undef, oauthCallback |-> Undef]]

\* typeof schema[prop] === 'function'
IsFunction(schema, prop) ==
    SchemaProps[schema][prop] # Undef

\* schemaInterface.hasRequiredFunction; reading a property of undefined
\* raises a TypeError, which the callers model before calling this.
hasRequiredFunction(schema, type) ==
    IsFunction(schema, interface[type])

(* ---------------------------------------------------------------------- *)
(* State                                                                   *)
(* ---------------------------------------------------------------------- *)
VARIABLES
    schemas,              \* this.schemas: Map in insertion order, <<[name, schema]>>
    defaultSchemasCache,  \* this.defaultSchemasCache: type -> schema or undefined
    option,               \* this.option after normalizeOption
    optionArg,            \* the option argument the constructor was called with
    schema_name,           \* schema.name of every schema object
    schemaDefault,        \* schema[KnockKnock.symbolDefault] of every schema object
    schemaVerify,         \* schema.verify of every schema object
    ret,                  \* outcome of the last direct _preferSchema call
    mw,                   \* middleware closures built so far: method, type, schemaName, closure variable schema
    req                   \* the requests: their sources, fields and position in the middleware

vars == <<schemas, defaultSchemasCache, option, optionArg, schema_name,
          schemaDefault, schemaVerify, ret, mw, req>>

EmptyCache == [login |-> Undef, auth |-> Undef]

(* ---------------------------------------------------------------------- *)
(* Option                                                                  *)
(* ---------------------------------------------------------------------- *)
\* normalizeOption: option.throwUnauthorizedError || true; the response
\* hooks are kept only when they are functions ("fn").
normalizeOption(opt) ==
    [throwUnauthorizedError |-> Or(opt.throwUnauthorizedError, JTrue),
     globalLoginResponse |->
        IF Truthy(opt.globalLoginResponse) /\ opt.globalLoginResponse = "fn"
        THEN opt.globalLoginResponse ELSE Undef,
     globalAuthResponse |->
        IF Truthy(opt.globalAuthResponse) /\ opt.globalAuthResponse = "fn"
        THEN opt.globalAuthResponse ELSE Undef]

\* the option objects handed to the constructor: {}, one that asks not to
\* throw, and one that asks to throw and has both global response hooks
NoOption ==
    [throwUnauthorizedError |-> Undef, globalLoginResponse |-> Undef,
     globalAuthResponse |-> Undef]

OptionInputs ==
    {NoOption,
     [NoOption EXCEPT !.throwUnauthorizedError = JFalse],
     [throwUnauthorizedError |-> JTrue, globalLoginResponse |-> "fn",
      globalAuthResponse |-> "fn"]}

(* ---------------------------------------------------------------------- *)
(* Registry                                                                *)
(* ---------------------------------------------------------------------- *)
\* Map.prototype.has
MapHas(m, name) ==
    \E i \in 1..Len(m) : m[i].name = name

\* Map.prototype.get
MapGet(m, name) ==
    IF MapHas(m, name)
    THEN (CHOOSE e \in {m[i] : i \in 1..Len(m)} : e.name = name).schema
    ELSE Undef

\* Map.prototype.set: an existing key keeps its position, a new key is appended
MapSet(m, name, schema) ==
    IF MapHas(m, name)
    THEN [i \in 1..Len(m) |-> IF m[i].name = name
                              THEN [name |-> name, schema |-> schema]
                              ELSE m[i]]
    ELSE Append(m, [name |-> name, schema |-> schema])

\* Map.prototype.delete
MapDelete(m, name) ==
    SelectSeq(m, LAMBDA e : e.name # name)

\* Array.from(this.schemas.values())
MapValues(m) ==
    [i \in 1..Len(m) |-> m[i].schema]

\* valid that looks at the size of the registry only
valid_sizeOnly ==
    Len(schemas) > 0

\* get valid
valid ==
    IF ~(Len(schemas) > 0) THEN FALSE
    ELSE \E i \in 1..Len(schemas) : hasRequiredFunction(MapValues(schemas)[i], "login")

\* enable(name, schema, setDefault, verifyLogin); the assertion on the name
\* fails before any assignment when neither the argument nor schema.name
\* gives one, and then the call changes nothing.
enable(name, schema, setDefault, verifyLogin) ==
    LET n == IF Truthy(name) THEN name ELSE schema_name[schema] IN
    /\ Truthy(n)
    /\ schema_name' = [schema_name EXCEPT ![schema] = n]
    /\ schemaDefault' = [schemaDefault EXCEPT ![schema] = setDefault]
    /\ schemaVerify' = IF Truthy(verifyLogin) /\ verifyLogin = "fn"
                       THEN [schemaVerify EXCEPT ![schema] = verifyLogin]
                       ELSE schemaVerify
    /\ schemas' = MapSet(schemas, n, schema)
    /\ defaultSchemasCache' = EmptyCache
    /\ UNCHANGED <<option, optionArg, ret, mw, req>>

\* disable that leaves the default-schema cache as it is
disable_keepsCache(name) ==
    /\ Truthy(name)
    /\ schemas' = MapDelete(schemas, name)
    /\ UNCHANGED <<defaultSchemasCache, option, optionArg, schema_name, schemaDefault,
                   schemaVerify, ret, mw, req>>

\* disable(name)
disable(name) ==
    /\ Truthy(name)
    /\ schemas' = MapDelete(schemas, name)
    /\ defaultSchemasCache' = EmptyCache
    /\ UNCHANGED <<option, optionArg, schema_name, schemaDefault, schemaVerify, ret, mw, req>>

(* ---------------------------------------------------------------------- *)
(* Resolver                                                                *)
(* ---------------------------------------------------------------------- *)
\* Array.prototype.find over the registry values: the first schema whose
\* default flag is truthy and which has the required function of the type.
FindDefault(m, type) ==
    LET hits == {i \in 1..Len(m) :
                    /\ Truthy(schemaDefault[m[i].schema])
                    /\ hasRequiredFunction(m[i].schema, type)}
    IN IF hits = {} THEN Undef
       ELSE m[CHOOSE i \in hits : \A j \in hits : i <= j].schema

\* _preferSchema that answers a named lookup failing the capability check
\* with the default schema of the type
_preferSchema_fallsBack(name, type) ==
    IF Truthy(name) THEN
        LET res == MapGet(schemas, name) IN
        IF Truthy(type) THEN
            IF res = Undef
            THEN [threw |-> TRUE, value |-> "TypeError", cache |-> defaultSchemasCache]
            ELSE [threw |-> FALSE,
                  value |-> IF hasRequiredFunction(res, type) THEN res
                            ELSE FindDefault(schemas, type),
                  cache |-> defaultSchemasCache]
        ELSE [threw |-> FALSE, value |-> res, cache |-> defaultSchemasCache]
    ELSE IF Truthy(type) THEN
        LET c == IF ~Truthy(defaultSchemasCache[type])
                 THEN [defaultSchemasCache EXCEPT ![type] = FindDefault(schemas, type)]
                 ELSE defaultSchemasCache
        IN [threw |-> FALSE, value |-> c[type], cache |-> c]
    ELSE [threw |-> FALSE, value |-> Null, cache |-> defaultSchemasCache]

\* _preferSchema(name, type): the value returned (or the TypeError raised by
\* hasRequiredFunction(undefined, type)) and the cache it leaves.
_preferSchema(name, type) ==
    IF Truthy(name) THEN
        LET res == MapGet(schemas, name) IN
        IF Truthy(type) THEN
            IF res = Undef
            THEN [threw |-> TRUE, value |-> "TypeError", cache |-> defaultSchemasCache]
            ELSE [threw |-> FALSE,
                  value |-> IF hasRequiredFunction(res, type) THEN res ELSE Undef,
                  cache |-> defaultSchemasCache]
        ELSE [threw |-> FALSE, value |-> res, cache |-> defaultSchemasCache]
    ELSE IF Truthy(type) THEN
        LET c == IF ~Truthy(defaultSchemasCache[type])
                 THEN [defaultSchemasCache EXCEPT ![type] = FindDefault(schemas, type)]
                 ELSE defaultSchemasCache
        IN [threw |-> FALSE, value |-> c[type], cache |-> c]
    ELSE [threw |-> FALSE, value |-> Null, cache |-> defaultSchemasCache]

\* a direct call of _preferSchema, its outcome kept in ret
Resolve(name, type) ==
    LET r == _preferSchema(name, type) IN
    /\ ret' = [name |-> name, type |-> type, threw |-> r.threw, value |-> r.value]
    /\ defaultSchemasCache' = r.cache
    /\ UNCHANGED <<schemas, option, optionArg, schema_name, schemaDefault, schemaVerify, mw, req>>

NoRet == [name |-> Undef, type |-> Null, threw |-> FALSE, value |-> Null]

(* ---------------------------------------------------------------------- *)
(* Request parameter extractor                                             *)
(* ---------------------------------------------------------------------- *)
Sources == {"params", "query", "cookies", "body"}

\* _getParamFromReq that asks the query before the path parameters
_getParamFromReq_queryFirst(src, param) ==
    Or(Or(Or(src.query[param], src.params[param]), src.cookies[param]), src.body[param])

\* _getParamFromReq(req, param), src being the four sources of the request
_getParamFromReq(src, param) ==
    Or(Or(Or(src.params[param], src.query[param]), src.cookies[param]), src.body[param])

\* a request source without the two selector parameters
NoParams == [knockLogin |-> Undef, knockAuth |-> Undef]

NoSources == [params |-> NoParams, query |-> NoParams, cookies |-> NoParams, body |-> NoParams]

\* a direct call of _getParamFromReq on a request, its outcome kept in ret
GetParam(i, param) ==
    /\ ret' = [name |-> param, type |-> Null, threw |-> FALSE,
               value |-> _getParamFromReq(req[i].src, param)]
    /\ UNCHANGED <<schemas, defaultSchemasCache, option, optionArg, schema_name,
                   schemaDefault, schemaVerify, mw, req>>

(* ---------------------------------------------------------------------- *)
(* Errors and users                                                        *)
(* ---------------------------------------------------------------------- *)
\* errors that are not instances of UnauthorizedError
AssertionError == "AssertionError"
TypeError == "TypeError"
PlainError == "Error"

\* new UnauthorizedError(...) instances, told apart by their message
ErrDenied == "UnauthorizedError: denied by the schema"
ErrRejected == "UnauthorizedError: thrown by the schema"
ErrEnded == "UnauthorizedError: don't end res in schema"
ErrMustSet == "UnauthorizedError: must set req.user if login/auth success or set req.unauthorizedError otherwise"

\* new UnauthorizedError(`internal error`, schema, err)
InternalError(err) ==
    "UnauthorizedError: internal error, cause " \o err

\* err instanceof UnauthorizedError
IsUnauthorizedError(err) ==
    err \in {ErrDenied, ErrRejected, ErrEnded, ErrMustSet}
            \cup {InternalError(c) : c \in {AssertionError, TypeError, PlainError}}

\* the users a schema produces: two objects and a primitive
UserObject == "{id: 1}"
UserOnReq == "{id: 2}"
UserPrimitive == "alice"

\* {user: user}
WrapUser(user) ==
    "{user: " \o user \o "}"

\* typeof user === 'object'
IsObject(user) ==
    user \in {UserObject, UserOnReq, WrapUser(UserPrimitive)}

(* ---------------------------------------------------------------------- *)
(* Behaviour of the schema functions                                       *)
(* ---------------------------------------------------------------------- *)
\* What a call of knockLogin / knockAuth does before it settles: the value
\* it resolves to, what it puts on req.user and req.unauthorizedError,
\* whether it ends the response, and the error it rejects with. A request
\* keeps what its call did in the field did.
Quiet == [returns |-> Undef, sets |-> Undef, error |-> Undef, ends |-> FALSE, throws |-> Undef]

MethodOutcomes ==
    {[Quiet EXCEPT !.returns = x, !.ends = e] : x \in {Undef, UserObject}, e \in BOOLEAN}
    \cup {[Quiet EXCEPT !.returns = UserPrimitive],
          [Quiet EXCEPT !.sets = UserOnReq],
          [Quiet EXCEPT !.error = ErrDenied],
          [Quiet EXCEPT !.error = ErrDenied, !.ends = TRUE]}
    \cup {[Quiet EXCEPT !.throws = x] : x \in {ErrRejected, PlainError}}

\* What a hook (create, loginResponse, authResponse, the global hooks) does:
\* it returns, or it rejects with an UnauthorizedError or another error.
HookOutcomes == {"ok", "throwsUnauthorized", "throwsError"}

\* What a method invoked directly (the pass-through branch) does: as a hook,
\* or it puts an UnauthorizedError on req.unauthorizedError and returns.
DirectOutcomes == HookOutcomes \cup {"setsError"}

HookThrows(h) ==
    h \in {"throwsUnauthorized", "throwsError"}

HookError(h) ==
    IF h = "throwsUnauthorized" THEN ErrRejected ELSE PlainError

(* ---------------------------------------------------------------------- *)
(* Requests                                                                *)
(* ---------------------------------------------------------------------- *)
NotCalled == "next not called"
NoArg == "no argument"

IdleReq ==
    [pc |-> "idle", m |-> 0, src |-> NoSources, user |-> Undef,
     unauthorizedError |-> Undef, headersSent |-> FALSE,
     schema |-> Undef, type |-> Undef, method |-> Undef, did |-> Quiet,
     nextCalls |-> 0, nextArg |-> NotCalled, raised |-> Undef, calls |-> <<>>]

\* next(arg)
next(r, arg) ==
    [r EXCEPT !.nextCalls = @ + 1, !.nextArg = arg, !.pc = "done"]

\* a call of a schema function or of a global hook, awaited at position pc
Call(r, fn, pc) ==
    [r EXCEPT !.calls = Append(@, fn), !.pc = pc]

(* ---------------------------------------------------------------------- *)
(* Middleware closure                                                      *)
(* ---------------------------------------------------------------------- *)
\* a catch block that lets everything but an UnauthorizedError escape: the
\* request ends without next being called and with nothing stored on it
Catch_rethrows(r, err) ==
    IF ~IsUnauthorizedError(err)
    THEN [r EXCEPT !.raised = err, !.pc = "done"]
    ELSE next([r EXCEPT !.raised = err], r.unauthorizedError)

\* the catch block of the middleware
Catch(r, err) ==
    LET r1 == [r EXCEPT !.raised = err,
                        !.unauthorizedError =
                            IF ~IsUnauthorizedError(err) THEN InternalError(err) ELSE @]
    IN IF Truthy(option.throwUnauthorizedError)
       THEN next(r1, r1.unauthorizedError)
       ELSE next(r1, NoArg)

\* if (req.unauthorizedError) throw req.unauthorizedError; next();
Finish(r) ==
    IF Truthy(r.unauthorizedError)
    THEN Catch(r, r.unauthorizedError)
    ELSE next(r, NoArg)

\* after the engine returned (it returns undefined): user = user || req.user,
\* the synthesized error when neither a user nor an error is there
AfterManual(r) ==
    LET user == Or(Undef, r.user) IN
    IF ~Truthy(user) /\ ~Truthy(r.unauthorizedError)
    THEN Finish([r EXCEPT !.unauthorizedError = ErrMustSet])
    ELSE Finish(r)

(* ---------------------------------------------------------------------- *)
(* Execution engine (_manual)                                              *)
(* ---------------------------------------------------------------------- *)
\* setUser(user): the value it returns; req.user is assigned when truthy
setUser(user) ==
    IF Truthy(user)
    THEN (IF ~IsObject(user) THEN WrapUser(user) ELSE user)
    ELSE user

\* the global response hook of the engine's operation, then the return
CallGlobal(r) ==
    LET g == IF r.type = "login" THEN option.globalLoginResponse
                                 ELSE option.globalAuthResponse
    IN IF Truthy(g)
       THEN Call(r, IF r.type = "login" THEN "option.globalLoginResponse"
                                        ELSE "option.globalAuthResponse", "awaitGlobal")
       ELSE AfterManual(r)

\* the schema's loginResponse / authResponse hook, then the global hook
CallResponse(r) ==
    LET h == IF r.type = "login" THEN "loginResponse" ELSE "authResponse" IN
    IF IsFunction(r.schema, h)
    THEN Call(r, SchemaProps[r.schema][h], "awaitResponse")
    ELSE CallGlobal(r)

\* the request after the awaited knockLogin / knockAuth call has acted on it
Acted(r, o) ==
    LET r1 == [r EXCEPT !.did = o,
                        !.user = IF o.sets # Undef THEN o.sets ELSE @,
                        !.unauthorizedError = IF o.error # Undef THEN o.error ELSE @,
                        !.headersSent = @ \/ o.ends]
        user == setUser(Or(o.returns, r1.user))
    IN [r1 EXCEPT !.user = IF Truthy(user) THEN user ELSE @]

\* a login engine that runs the companion's create hook whether or not the
\* login established a user
login_createsAlways(r, o) ==
    LET r2 == Acted(r, o) IN
    IF o.throws # Undef
    THEN [req |-> Catch([r EXCEPT !.did = o], o.throws), cache |-> defaultSchemasCache]
    ELSE IF r2.headersSent
    THEN [req |-> Catch(r2, ErrEnded), cache |-> defaultSchemasCache]
    ELSE LET pr == _preferSchema(_getParamFromReq(r2.src, interface.auth), "auth") IN
         IF pr.threw
         THEN [req |-> Catch(r2, pr.value), cache |-> pr.cache]
         ELSE IF Truthy(pr.value) /\ IsFunction(pr.value, "create")
         THEN [req |-> Call(r2, SchemaProps[pr.value].create, "awaitCreate"),
               cache |-> pr.cache]
         ELSE [req |-> CallResponse(r2), cache |-> pr.cache]

\* _manual(...).login from the point its knockLogin call settles: the
\* request and the cache it leaves
login(r, o) ==
    LET r2 == Acted(r, o) IN
    IF o.throws # Undef
    THEN [req |-> Catch([r EXCEPT !.did = o], o.throws), cache |-> defaultSchemasCache]
    ELSE IF r2.headersSent
    THEN [req |-> Catch(r2, ErrEnded), cache |-> defaultSchemasCache]
    ELSE IF Truthy(r2.user) /\ ~Truthy(r2.unauthorizedError)
    THEN LET pr == _preferSchema(_getParamFromReq(r2.src, interface.auth), "auth") IN
         IF pr.threw
         THEN [req |-> Catch(r2, pr.value), cache |-> pr.cache]
         ELSE IF Truthy(pr.value) /\ IsFunction(pr.value, "create")
         THEN [req |-> Call(r2, SchemaProps[pr.value].create, "awaitCreate"),
               cache |-> pr.cache]
         ELSE [req |-> CallResponse(r2), cache |-> pr.cache]
    ELSE [req |-> CallResponse(r2), cache |-> defaultSchemasCache]

\* _manual(...).auth from the point its knockAuth call settles
auth(r, o) ==
    LET r2 == Acted(r, o) IN
    IF o.throws # Undef
    THEN [req |-> Catch([r EXCEPT !.did = o], o.throws), cache |-> defaultSchemasCache]
    ELSE IF r2.headersSent
    THEN [req |-> Catch(r2, ErrEnded), cache |-> defaultSchemasCache]
    ELSE [req |-> CallResponse(r2), cache |-> defaultSchemasCache]

(* ---------------------------------------------------------------------- *)
(* Middleware factories (createOptionalMethods)                            *)
(* ---------------------------------------------------------------------- *)
\* the capability type whose lazy list holds the method
TypeOf(method) ==
    CHOOSE t \in Types : method \in lazy[t]

\* Object.values(schemaInterface.interface).some(v => schema[v] === schema[method])
isInterfaceMethod(schema, method) ==
    \E t \in Types : SchemaProps[schema][interface[t]] = SchemaProps[schema][method]

\* KnockKnock.prototype[method](schemaName): builds the closure; a schema
\* name under which nothing is registered raises a TypeError in
\* _preferSchema and no middleware is built.
Factory(method, schemaName) ==
    LET type == TypeOf(method)
        pr == IF Truthy(schemaName)
              THEN _preferSchema(schemaName, type)
              ELSE [threw |-> FALSE, value |-> Undef, cache |-> defaultSchemasCache]
    IN /\ Len(mw) < MaxMw
       /\ ~pr.threw
       /\ mw' = Append(mw, [method |-> method, type |-> type, schemaName |-> schemaName,
                            schema |-> pr.value])
       /\ defaultSchemasCache' = pr.cache
       /\ UNCHANGED <<schemas, option, optionArg, schema_name, schemaDefault,
                      schemaVerify, ret, req>>

\* The middleware closure from its call to its first await (or to next):
\* the request, the closure variable schema and the cache it leaves.
Middleware(m, src) ==
    LET type == mw[m].type
        method == mw[m].method
        r0 == [IdleReq EXCEPT !.m = m, !.src = src, !.type = type, !.method = method]
        keep == [req |-> r0, schema |-> mw[m].schema, cache |-> defaultSchemasCache]
    IN
    IF ~valid THEN [keep EXCEPT !.req = Catch(r0, AssertionError)]
    ELSE
    LET pr == IF ~Truthy(mw[m].schema)
              THEN _preferSchema(_getParamFromReq(src, IF type = "login"
                                                       THEN interface.login
                                                       ELSE interface.auth), type)
              ELSE [threw |-> FALSE, value |-> mw[m].schema, cache |-> defaultSchemasCache]
    IN
    IF pr.threw THEN [keep EXCEPT !.req = Catch(r0, pr.value)]
    ELSE
    LET schema == pr.value
        r1 == [r0 EXCEPT !.schema = schema]
        got == [req |-> r1, schema |-> schema, cache |-> pr.cache]
    IN
    IF ~(Truthy(schema) /\ IsFunction(schema, method))
    THEN [got EXCEPT !.req = Catch(r1, AssertionError)]
    ELSE IF isInterfaceMethod(schema, method)
    THEN IF type = "login" /\ ~valid
         THEN [got EXCEPT !.req = Catch(r1, AssertionError)]
         ELSE IF ~IsFunction(schema, interface[type])
         THEN [got EXCEPT !.req = Catch(r1, TypeError)]
         ELSE [got EXCEPT !.req = Call(r1, SchemaProps[schema][interface[type]], "awaitMethod")]
    ELSE [got EXCEPT !.req = Call(r1, SchemaProps[schema][method], "awaitDirect")]

\* a request enters middleware m
Start(i, m, src) ==
    /\ req[i].pc \in {"idle", "done"}
    /\ m \in 1..Len(mw)
    /\ LET s == Middleware(m, src) IN
       /\ req' = [req EXCEPT ![i] = s.req]
       /\ mw' = [mw EXCEPT ![m].schema = s.schema]
       /\ defaultSchemasCache' = s.cache
    /\ UNCHANGED <<schemas, option, optionArg, schema_name, schemaDefault, schemaVerify, ret>>

\* the awaited knockLogin / knockAuth call settles
MethodSettles(i, o) ==
    /\ req[i].pc = "awaitMethod"
    /\ LET s == IF req[i].type = "login" THEN login(req[i], o) ELSE auth(req[i], o) IN
       /\ req' = [req EXCEPT ![i] = s.req]
       /\ defaultSchemasCache' = s.cache
    /\ UNCHANGED <<schemas, option, optionArg, schema_name, schemaDefault, schemaVerify,
                   ret, mw>>

\* the request after a directly invoked method that did not throw
Hooked(r, h) ==
    IF h = "setsError" THEN [r EXCEPT !.unauthorizedError = ErrDenied] ELSE r

\* the awaited create hook of the companion auth schema settles
CreateSettles(i, h) ==
    /\ req[i].pc = "awaitCreate"
    /\ req' = [req EXCEPT ![i] = IF HookThrows(h) THEN Catch(@, HookError(h))
                                 ELSE CallResponse(@)]
    /\ UNCHANGED <<schemas, defaultSchemasCache, option, optionArg, schema_name,
                   schemaDefault, schemaVerify, ret, mw>>

\* a settling of the response hook that calls the hook a second time
ResponseSettles_repeats(i, h) ==
    /\ req[i].pc = "awaitResponse"
    /\ req' = [req EXCEPT ![i] = IF HookThrows(h) THEN Catch(@, HookError(h))
                                 ELSE IF Len(@.calls) < 3 THEN CallResponse(@)
                                 ELSE CallGlobal(@)]
    /\ UNCHANGED <<schemas, defaultSchemasCache, option, optionArg, schema_name,
                   schemaDefault, schemaVerify, ret, mw>>

\* the awaited loginResponse / authResponse hook settles
ResponseSettles(i, h) ==
    /\ req[i].pc = "awaitResponse"
    /\ req' = [req EXCEPT ![i] = IF HookThrows(h) THEN Catch(@, HookError(h))
                                 ELSE CallGlobal(@)]
    /\ UNCHANGED <<schemas, defaultSchemasCache, option, optionArg, schema_name,
                   schemaDefault, schemaVerify, ret, mw>>

\* the awaited global response hook settles
GlobalSettles(i, h) ==
    /\ req[i].pc = "awaitGlobal"
    /\ req' = [req EXCEPT ![i] = IF HookThrows(h) THEN Catch(@, HookError(h))
                                 ELSE AfterManual(@)]
    /\ UNCHANGED <<schemas, defaultSchemasCache, option, optionArg, schema_name,
                   schemaDefault, schemaVerify, ret, mw>>

\* the awaited schema[method] call of the pass-through branch settles
DirectSettles(i, h) ==
    /\ req[i].pc = "awaitDirect"
    /\ req' = [req EXCEPT ![i] = IF HookThrows(h) THEN Catch(@, HookError(h))
                                 ELSE Finish(Hooked(@, h))]
    /\ UNCHANGED <<schemas, defaultSchemasCache, option, optionArg, schema_name,
                   schemaDefault, schemaVerify, ret, mw>>

\* The call next() of the success path (line 317) is made inside the try
\* block: when the callback throws, the catch block runs and calls next again.
\* A request that is done with one call of next, without argument and with
\* nothing raised, is in (or past) that call.
NextThrows(i) ==
    /\ req[i].pc = "done"
    /\ req[i].nextCalls = 1
    /\ req[i].nextArg = NoArg
    /\ req[i].raised = Undef
    /\ req' = [req EXCEPT ![i] = Catch(@, PlainError)]
    /\ UNCHANGED <<schemas, defaultSchemasCache, option, optionArg, schema_name,
                   schemaDefault, schemaVerify, ret, mw>>

(* ---------------------------------------------------------------------- *)
(* Specifications                                                          *)
(* ---------------------------------------------------------------------- *)
Reqs == 1..MaxReq

\* the middleware built: login and auth with and without a schema name, the
\* pass-through revoke without
FactoryInputs ==
    {<<method, schemaName>> : method \in {"login", "auth"}, schemaName \in Names \cup {Undef}}
    \cup {<<"revoke", Undef>>}

\* the requests sent through the middleware: at most one selector, in the query
ReqSources ==
    {[NoSources EXCEPT !.query = [knockLogin |-> l, knockAuth |-> Undef]] :
        l \in Names \cup {Undef}}
    \cup {[NoSources EXCEPT !.query = [knockLogin |-> Undef, knockAuth |-> a]] :
        a \in Names}

\* constructor: empty registry, empty cache, normalized option
Init ==
    /\ schemas = <<>>
    /\ defaultSchemasCache = EmptyCache
    /\ optionArg \in OptionInputs
    /\ option = normalizeOption(optionArg)
    /\ schema_name = [o \in SchemaObjs |-> Undef]
    /\ schemaDefault = [o \in SchemaObjs |-> Undef]
    /\ schemaVerify = [o \in SchemaObjs |-> Undef]
    /\ ret = NoRet
    /\ mw = <<>>
    /\ req = [i \in Reqs |-> IdleReq]

\* the registrations of the specification: every schema object under its own name
EnableInputs == {<<"a", "S1">>, <<"b", "S2">>, <<"b", "S3">>}

Next ==
    \/ \E e \in EnableInputs, setDefault \in {JTrue, JFalse} :
          enable(e[1], e[2], setDefault, Null)
    \/ \E name \in Names : disable(name)
    \/ \E f \in FactoryInputs : Factory(f[1], f[2])
    \/ \E i \in Reqs, m \in 1..MaxMw, src \in ReqSources : Start(i, m, src)
    \/ \E i \in Reqs, o \in MethodOutcomes : MethodSettles(i, o)
    \/ \E i \in Reqs, h \in HookOutcomes : CreateSettles(i, h)
    \/ \E i \in Reqs, h \in HookOutcomes : ResponseSettles(i, h)
    \/ \E i \in Reqs, h \in HookOutcomes : GlobalSettles(i, h)
    \/ \E i \in Reqs, h \in DirectOutcomes : DirectSettles(i, h)
    \/ \E i \in Reqs : NextThrows(i)

Spec == Init /\ [][Next]_vars

\* the call request i awaits settles, in whatever way
Settle(i) ==
    \/ \E o \in MethodOutcomes : MethodSettles(i, o)
    \/ \E h \in HookOutcomes : CreateSettles(i, h)
    \/ \E h \in HookOutcomes : ResponseSettles(i, h)
    \/ \E h \in HookOutcomes : GlobalSettles(i, h)
    \/ \E h \in DirectOutcomes : DirectSettles(i, h)

\* the same program where every awaited schema method and hook eventually
\* settles
SpecLive ==
    /\ Init
    /\ [][Next]_vars
    /\ \A i \in Reqs : WF_vars(Settle(i))

(* ---------------------------------------------------------------------- *)
(* Registry and resolver on their own                                      *)
(* ---------------------------------------------------------------------- *)
InitRegistry ==
    /\ Init
    /\ optionArg = NoOption

NextRegistry ==
    \/ \E name \in Names \cup {Undef}, schema \in SchemaObjs, setDefault \in {JTrue, JFalse} :
          enable(name, schema, setDefault, Null)
    \/ \E name \in Names : disable(name)
    \/ \E name \in Names \cup {Undef}, type \in Types \cup {Null} : Resolve(name, type)

SpecRegistry == InitRegistry /\ [][NextRegistry]_vars

(* ---------------------------------------------------------------------- *)
(* Parameter extractor on its own                                          *)
(* ---------------------------------------------------------------------- *)
\* the values a request source holds under a key: absent, the empty string, a name
ParamValues == {Undef, Empty} \cup Names

SelectorKeys == {"knockLogin", "knockAuth"}

AllSources ==
    [Sources -> [SelectorKeys -> ParamValues]]

\* the record of a request's sources from a function over Sources
AsSources(f) ==
    [params  |-> [knockLogin |-> f["params"]["knockLogin"], knockAuth |-> f["params"]["knockAuth"]],
     query   |-> [knockLogin |-> f["query"]["knockLogin"], knockAuth |-> f["query"]["knockAuth"]],
     cookies |-> [knockLogin |-> f["cookies"]["knockLogin"], knockAuth |-> f["cookies"]["knockAuth"]],
     body    |-> [knockLogin |-> f["body"]["knockLogin"], knockAuth |-> f["body"]["knockAuth"]]]

InitParam ==
    /\ schemas = <<>>
    /\ defaultSchemasCache = EmptyCache
    /\ optionArg = NoOption
    /\ option = normalizeOption(optionArg)
    /\ schema_name = [o \in SchemaObjs |-> Undef]
    /\ schemaDefault = [o \in SchemaObjs |-> Undef]
    /\ schemaVerify = [o \in SchemaObjs |-> Undef]
    /\ ret = NoRet
    /\ mw = <<>>
    /\ \E f \in AllSources :
          req = [i \in Reqs |-> IF i = 1 THEN [IdleReq EXCEPT !.src = AsSources(f)]
                                ELSE IdleReq]

NextParam ==
    \E param \in SelectorKeys : GetParam(1, param)

SpecParam == InitParam /\ [][NextParam]_vars

(* ---------------------------------------------------------------------- *)
(* Properties of the registry and the resolver                             *)
(* ---------------------------------------------------------------------- *)
\* a schema with a callable knockLogin is registered under some name
LoginSchemaRegistered ==
    \E n \in Names : \E o \in SchemaObjs :
        /\ [name |-> n, schema |-> o] \in {schemas[i] : i \in 1..Len(schemas)}
        /\ SchemaProps[o].knockLogin # Undef

\* C1: after any sequence of enable and disable calls, valid is true if and
\* only if the registry holds at least one schema whose knockLogin is
\* callable; it is false for the empty registry.
C1_ValidIffLoginSchema ==
    /\ valid <=> LoginSchemaRegistered
    /\ schemas = <<>> => ~valid

\* C1 witness: a login-capable schema was enabled and disabled again, the
\* registry still holds a schema that is not login-capable, and valid is false.
C1_Witness ==
    /\ Len(schemas) > 0
    /\ ~valid
    /\ \E o \in SchemaObjs :
          /\ schema_name[o] # Undef
          /\ SchemaProps[o].knockLogin # Undef

\* the cache holds nothing but what a scan of the registry gives now
CacheFresh ==
    \A t \in Types :
        Truthy(defaultSchemasCache[t]) => defaultSchemasCache[t] = FindDefault(schemas, t)

\* a by-type resolution returns what a scan of the registry gives now
ResolveFresh ==
    \A t \in Types :
        Resolve(Undef, t) => /\ ~ret'.threw
                             /\ ret'.value = FindDefault(schemas, t)

\* a by-type resolution that follows one for the same type, the memo still
\* standing, returns the same schema reference
ResolveMemoized ==
    \A t \in Types :
        (/\ Resolve(Undef, t)
         /\ ~Truthy(ret.name) /\ ret.type = t
         /\ Truthy(defaultSchemasCache[t])) => ret'.value = ret.value

\* every enable and every disable call leaves the cache empty
MutationEmptiesCache ==
    (\/ \E name \in Names \cup {Undef}, schema \in SchemaObjs,
           setDefault \in {JTrue, JFalse}, verifyLogin \in {Null, "fn"} :
           enable(name, schema, setDefault, verifyLogin)
     \/ \E name \in Names : disable(name))
    => defaultSchemasCache' = EmptyCache

\* C2: the default-schema cache is never stale: a by-type resolution returns
\* the schema a fresh scan of the current registry returns, two by-type
\* resolutions for the same capability with no enable/disable in between
\* return the identical reference, and every enable or disable empties the
\* cache.
C2_CacheNeverStale ==
    /\ []CacheFresh
    /\ [][ResolveFresh]_vars
    /\ [][ResolveMemoized]_vars
    /\ [][MutationEmptiesCache]_vars

\* C2 witness: a by-type resolution has filled the cache for login, and the
\* registry holds a second default login schema after the one memoized.
C2_Witness ==
    /\ ~Truthy(ret.name) /\ ret.type = "login"
    /\ Truthy(defaultSchemasCache["login"])
    /\ ret.value = defaultSchemasCache["login"]
    /\ Len(schemas) = 2
    /\ \A i \in 1..2 : /\ Truthy(schemaDefault[schemas[i].schema])
                       /\ hasRequiredFunction(schemas[i].schema, "login")
    /\ schemas[1].schema # schemas[2].schema

SourceOrder == <<"params", "query", "cookies", "body">>

\* the value of the first source, in precedence order, in which the key is defined
FirstDefined(src, param) ==
    LET v == [k \in 1..4 |-> src[SourceOrder[k]][param]]
        defined == {k \in 1..4 : v[k] # Undef}
    IN IF defined = {} THEN Undef
       ELSE v[CHOOSE k \in defined : \A j \in defined : k <= j]

\* the value of the first source, in precedence order, whose value is truthy,
\* and the body's value when none is
FirstTruthy(src, param) ==
    LET v == [k \in 1..4 |-> src[SourceOrder[k]][param]]
        truthy == {k \in 1..4 : Truthy(v[k])}
    IN IF truthy = {} THEN v[4]
       ELSE v[CHOOSE k \in truthy : \A j \in truthy : k <= j]

\* C4 as claimed: the extractor returns the value of the first source, in the
\* order path params, query, cookies, body, in which the key is defined.
C4_FirstDefinedWins ==
    ret.name \in SelectorKeys => ret.value = FirstDefined(req[1].src, ret.name)

\* C4 as amended: the extractor returns the value of the first source, in the
\* order path params, query, cookies, body, whose value under the key is
\* truthy; when no source holds a truthy value it returns the body's value.
C4_FirstTruthyWins ==
    ret.name \in SelectorKeys => ret.value = FirstTruthy(req[1].src, ret.name)

\* C4 witness: the path parameter is defined but empty, the query holds a
\* name, and the extractor returned the query's value.
C4_Witness ==
    /\ ret.name = "knockLogin"
    /\ req[1].src.params["knockLogin"] = Empty
    /\ req[1].src.query["knockLogin"] = "a"
    /\ req[1].src.cookies["knockLogin"] = "b"
    /\ ret.value = "a"

(* ---------------------------------------------------------------------- *)
(* Properties of the middleware                                            *)
(* ---------------------------------------------------------------------- *)
\* the request went through the execution engine: the method of the
\* middleware is one of the schema's interface methods and it was called
EngineRan(r) ==
    /\ r.schema \in SchemaObjs
    /\ Len(r.calls) > 0
    /\ isInterfaceMethod(r.schema, r.method)

\* the middleware handed an error to next
NextGotError(r) ==
    /\ r.nextCalls > 0
    /\ IsUnauthorizedError(r.nextArg)

\* C5: a request through a login middleware whose knockLogin call set neither
\* req.user nor req.unauthorizedError and returned no user ends with an
\* UnauthorizedError on req.unauthorizedError, and next is called with an error.
C5_QuietLoginFails ==
    \A i \in Reqs :
        (/\ req[i].pc = "done"
         /\ req[i].method = "login"
         /\ EngineRan(req[i])
         /\ req[i].did.returns = Undef /\ req[i].did.sets = Undef
         /\ req[i].did.error = Undef /\ req[i].did.throws = Undef)
        => /\ IsUnauthorizedError(req[i].unauthorizedError)
           /\ NextGotError(req[i])

\* C6: a request through a login middleware whose knockLogin call ended the
\* response ends in failure: an UnauthorizedError is raised and next is called
\* with an error.
C6_EndedResponseFails ==
    \A i \in Reqs :
        (/\ req[i].pc = "done"
         /\ req[i].method = "login"
         /\ EngineRan(req[i])
         /\ req[i].did.ends /\ req[i].did.throws = Undef)
        => /\ IsUnauthorizedError(req[i].raised)
           /\ NextGotError(req[i])

\* C7: a failing login middleware of a dispatcher constructed with
\* throwUnauthorizedError=false calls next() with no argument and leaves
\* req.unauthorizedError populated; with the option true or omitted it calls
\* next with the error stored on req.unauthorizedError.
C7_OptionSelectsPolicy ==
    \A i \in Reqs :
        (/\ req[i].pc = "done"
         /\ req[i].method = "login"
         /\ req[i].raised # Undef)
        => IF optionArg.throwUnauthorizedError = JFalse
           THEN /\ req[i].nextArg = NoArg
                /\ IsUnauthorizedError(req[i].unauthorizedError)
           ELSE /\ NextGotError(req[i])
                /\ req[i].nextArg = req[i].unauthorizedError

\* C8: the registry holds only a schema enabled as default whose knockLogin
\* and knockAuth are callable and whose knockLogin returns a user object; a
\* request without selector parameters through a login middleware built
\* without a schema name ends with that user on req.user, no
\* req.unauthorizedError, and next() called with no error.
C8_DefaultLoginSucceeds ==
    \A i \in Reqs :
        (/\ req[i].pc = "done"
         /\ req[i].method = "login"
         /\ mw[req[i].m].schemaName = Undef
         /\ req[i].src = NoSources
         /\ req[i].schema \in SchemaObjs
         /\ schemas = <<[name |-> schema_name[req[i].schema], schema |-> req[i].schema]>>
         /\ schemaDefault[req[i].schema] = JTrue
         /\ IsFunction(req[i].schema, "knockLogin")
         /\ IsFunction(req[i].schema, "knockAuth")
         /\ req[i].did \in {Quiet, [Quiet EXCEPT !.returns = UserObject]}
         /\ req[i].did = Quiet => req[i].calls = <<>>)
        => /\ req[i].user = UserObject
           /\ req[i].unauthorizedError = Undef
           /\ req[i].nextCalls = 1
           /\ req[i].nextArg = NoArg

\* the step is a request entering a middleware on slot i (the only step that
\* takes a slot out of idle or done)
StartsOn(i) ==
    /\ req[i].pc \in {"idle", "done"}
    /\ req'[i].m \in 1..Len(mw)
    /\ \E src \in ReqSources : req'[i].src = src /\ Start(i, req'[i].m, src)

\* the configuration of middleware m is broken for the request it starts on:
\* valid is false, or the schema it resolves is missing or has no callable
\* method of the middleware's name
Misconfigured(m) ==
    \/ ~valid
    \/ ~Truthy(mw'[m].schema)
    \/ ~IsFunction(mw'[m].schema, mw[m].method)

\* C9 as claimed: an assertion failure raised in a middleware escapes it: it
\* is not stored on req.unauthorizedError and not handed to next.
C9_AssertionsEscape ==
    \A i \in Reqs :
        req[i].raised = AssertionError
        => /\ req[i].unauthorizedError = Undef
           /\ req[i].nextCalls = 0

\* C9 as amended: when a middleware runs while valid is false, or the schema
\* it resolves is missing or does not implement the invoked method, the
\* failure raised (the assertion failure, or the TypeError of resolving a name
\* nothing is registered under) is caught by the middleware, wrapped in an
\* UnauthorizedError tagged internal error with the failure as its cause,
\* stored on req.unauthorizedError and handed to next.
C9_AssertionsTranslated ==
    [][\A i \in Reqs :
          (/\ StartsOn(i)
           /\ Misconfigured(req'[i].m)) =>
             /\ req'[i].pc = "done"
             /\ req'[i].calls = <<>>
             /\ req'[i].raised \in {AssertionError, TypeError}
             /\ ~valid => req'[i].raised = AssertionError
             /\ req'[i].unauthorizedError = InternalError(req'[i].raised)
             /\ req'[i].nextCalls = 1
             /\ req'[i].nextArg = req'[i].unauthorizedError]_vars

\* C9 witness: the only login-capable schema was disabled, a request then ran
\* into the valid assertion, and the failure sits wrapped on the request and
\* was handed to next.
C9_Witness ==
    \E i \in Reqs :
        /\ ~valid
        /\ \E o \in SchemaObjs : schema_name[o] # Undef /\ IsFunction(o, "knockLogin")
        /\ req[i].pc = "done"
        /\ req[i].raised = AssertionError
        /\ req[i].unauthorizedError = InternalError(AssertionError)
        /\ req[i].nextArg = InternalError(AssertionError)

\* C10: when an error was raised inside a middleware invocation, then at the
\* time next is called req.unauthorizedError holds the raised error itself if
\* it is an UnauthorizedError, otherwise the internal-error wrapper around it;
\* under the default policy next receives that same instance.
C10_RaisedErrorStored ==
    \A i \in Reqs :
        (/\ req[i].pc = "done"
         /\ req[i].raised # Undef)
        => /\ IsUnauthorizedError(req[i].unauthorizedError)
           /\ req[i].unauthorizedError =
                 (IF IsUnauthorizedError(req[i].raised) THEN req[i].raised
                  ELSE InternalError(req[i].raised))
           /\ optionArg.throwUnauthorizedError # JFalse
                 => req[i].nextArg = req[i].unauthorizedError

(* ---------------------------------------------------------------------- *)
(* Properties of schema selection by the middleware                        *)
(* ---------------------------------------------------------------------- *)
\* what the resolver answers for the selector parameter a request with the
\* sources src carries for middleware m, in the current registry
OwnSelection(m, src) ==
    _preferSchema(_getParamFromReq(src, interface[mw[m].type]), mw[m].type)

\* C11: a request entering a middleware built without a schema name is
\* handled by the schema its own selector parameter selects, or by the
\* current default when it carries none, whatever schema earlier requests
\* through the same middleware were handled by.
C11_ResolvedPerRequest ==
    [][\A i \in Reqs :
          (/\ StartsOn(i)
           /\ mw[req'[i].m].schemaName = Undef
           /\ valid
           /\ ~OwnSelection(req'[i].m, req'[i].src).threw
           /\ Truthy(OwnSelection(req'[i].m, req'[i].src).value))
          => req'[i].schema = OwnSelection(req'[i].m, req'[i].src).value]_vars

(* ---------------------------------------------------------------------- *)
(* Properties of the execution engine                                      *)
(* ---------------------------------------------------------------------- *)
\* C12: the global response hook of an operation is invoked only after the
\* operation succeeded: while globalLoginResponse (globalAuthResponse) is
\* running, the request carries a user and no req.unauthorizedError.
C12_GlobalHooksAfterSuccess ==
    \A i \in Reqs :
        req[i].pc = "awaitGlobal"
        => /\ Truthy(req[i].user)
           /\ ~Truthy(req[i].unauthorizedError)

\* the step of the engine a called function belongs to: 1 the schema's
\* knockLogin / knockAuth, 2 a create hook, 3 a loginResponse / authResponse
\* hook, 4 a global response hook
StepOf(fn) ==
    IF \E o \in SchemaObjs, t \in Types : fn = SchemaProps[o][interface[t]] THEN 1
    ELSE IF \E o \in SchemaObjs : fn = SchemaProps[o].create THEN 2
    ELSE IF \E o \in SchemaObjs : fn \in {SchemaProps[o].loginResponse,
                                          SchemaProps[o].authResponse} THEN 3
    ELSE IF fn \in {"option.globalLoginResponse", "option.globalAuthResponse"} THEN 4
    ELSE 0

\* the await a request stands at when the call of a step is in progress
AwaitOf(step) ==
    <<"awaitMethod", "awaitCreate", "awaitResponse", "awaitGlobal">>[step]

\* C13: within one login or auth request the steps are strictly sequential
\* and each happens at most once: the calls made so far are knockLogin (or
\* knockAuth), then create (login only), then the schema's response hook,
\* then the global response hook, in that order and none of them twice; only
\* the last call is in progress, all earlier ones have completed; next is
\* called only when none is in progress.
C13_StepsSequential ==
    \A i \in Reqs :
        EngineRan(req[i]) =>
            LET r == req[i]
                n == Len(r.calls)
            IN /\ r.calls[1] = SchemaProps[r.schema][interface[r.type]]
               /\ \A k \in 1..n : StepOf(r.calls[k]) \in 1..4
               /\ \A j, k \in 1..n : j < k => StepOf(r.calls[j]) < StepOf(r.calls[k])
               /\ r.type = "auth" => \A k \in 1..n : StepOf(r.calls[k]) # 2
               /\ \A k \in 1..n :
                     /\ StepOf(r.calls[k]) = 3 =>
                           r.calls[k] = SchemaProps[r.schema][IF r.type = "login"
                                                              THEN "loginResponse"
                                                              ELSE "authResponse"]
                     /\ StepOf(r.calls[k]) = 4 =>
                           r.calls[k] = (IF r.type = "login"
                                         THEN "option.globalLoginResponse"
                                         ELSE "option.globalAuthResponse")
               /\ r.pc \in {AwaitOf(StepOf(r.calls[n])), "done"}
               /\ r.pc = "done" <=> r.nextCalls > 0

\* C13 witness: a login request went through all four steps, a companion
\* schema's create among them, and next was then called.
C13_Witness ==
    \E i \in Reqs :
        /\ req[i].pc = "done"
        /\ req[i].type = "login"
        /\ EngineRan(req[i])
        /\ Len(req[i].calls) = 4
        /\ req[i].calls[2] = "S3.create"
        /\ req[i].nextCalls = 1
        /\ req[i].nextArg = NoArg

\* the companion auth schema of a login request with the sources src: the
\* schema registered under the request's knockAuth parameter, or the default
\* auth schema when the request carries none
Companion(src) ==
    LET sel == _getParamFromReq(src, interface.auth) IN
    IF Truthy(sel) THEN MapGet(schemas, sel) ELSE FindDefault(schemas, "auth")

\* a create hook is running for the request
CreateRunning(r) ==
    r.pc = "awaitCreate"

LoginEstablishedUser(r) ==
    /\ r.type = "login"
    /\ EngineRan(r)
    /\ Truthy(Or(r.did.returns, r.did.sets))
    /\ r.did.error = Undef
    /\ ~r.did.ends
    /\ r.did.throws = Undef

\* neither the schema's loginResponse hook nor the global hook was reached
\* and failed, and the callback next did not throw: nothing was raised, or
\* it was raised before next was called and while the last call of the
\* request was knockLogin or a create hook
ResponseHooksFine(r) ==
    \/ r.raised = Undef
    \/ /\ r.nextCalls = 1
       /\ StepOf(r.calls[Len(r.calls)]) \in {1, 2}

\* C15: session creation is best-effort: when knockLogin established a user
\* and the response hooks did not fail, the login middleware reports success
\* (next() without an error, req.user kept, no req.unauthorizedError) whether
\* the companion auth schema is absent, cannot be resolved from the request's
\* knockAuth parameter, has no create hook, or its create hook fails.
C15_CreateIsBestEffort ==
    \A i \in Reqs :
        (/\ req[i].pc = "done"
         /\ LoginEstablishedUser(req[i])
         /\ ResponseHooksFine(req[i]))
        => /\ req[i].nextCalls = 1
           /\ req[i].nextArg = NoArg
           /\ Truthy(req[i].user)
           /\ req[i].unauthorizedError = Undef

(* ---------------------------------------------------------------------- *)
(* Further properties of the registry and the resolver                     *)
(* ---------------------------------------------------------------------- *)
\* C16: a resolution by name with a capability type is total: for every
\* name, registered or not, it raises no error, and it returns undefined
\* unless the schema registered under the name satisfies the capability.
C16_NamedResolutionTotal ==
    /\ [](Truthy(ret.name) /\ Truthy(ret.type) => ~ret.threw)
    /\ [][\A name \in Names, type \in Types :
            (Resolve(name, type) /\ ~(MapHas(schemas, name)
                                      /\ hasRequiredFunction(MapGet(schemas, name), type)))
            => ret'.value = Undef]_vars

\* the schema objects the registry holds
Registered ==
    {schemas[k].schema : k \in 1..Len(schemas)}

\* C17: when several registered schemas have the default flag set and
\* satisfy the same capability, by-type resolution returns the
\* earliest-registered of them. In particular a schema object registered now,
\* under a new name or under a name already registered, never displaces the
\* default of a capability that was registered before it and stays registered.
C17_EarliestRegisteredWins ==
    [][\A name \in Names, schema \in SchemaObjs, setDefault \in {JTrue, JFalse},
          type \in Types :
          (/\ enable(name, schema, setDefault, Null)
           /\ schema \notin Registered
           /\ FindDefault(schemas, type) # Undef
           /\ MapGet(schemas, name) # FindDefault(schemas, type))
          => FindDefault(schemas, type)' = FindDefault(schemas, type)]_vars

(* ---------------------------------------------------------------------- *)
(* Properties of middleware built for a registry that changes              *)
(* ---------------------------------------------------------------------- *)
\* C18: a middleware built with an explicit schema name never dispatches to
\* another schema: a request through it calls no function of a schema whose
\* name is not the one the middleware was built with, be it the schema named
\* in the request's selector parameter or the default schema.
C18_NamedNeverDispatchesElsewhere ==
    \A i \in Reqs :
        (/\ req[i].m \in 1..Len(mw)
         /\ Truthy(mw[req[i].m].schemaName)
         /\ Len(req[i].calls) > 0)
        => schema_name[req[i].schema] = mw[req[i].m].schemaName

(* ---------------------------------------------------------------------- *)
(* Properties of the completion callback                                   *)
(* ---------------------------------------------------------------------- *)
\* the request waits for a schema method or a hook to settle
Awaiting(r) ==
    r.pc \in {"awaitMethod", "awaitCreate", "awaitResponse", "awaitGlobal", "awaitDirect"}

\* C19: every middleware invocation calls next exactly once: when every
\* awaited schema method and hook eventually settles the invocation reaches
\* its end, it has called next when it is there, and it never calls next a
\* second time.
C19_NextExactlyOnce ==
    /\ [](\A i \in Reqs : req[i].nextCalls <= 1)
    /\ [](\A i \in Reqs : req[i].pc = "done" => req[i].nextCalls >= 1)
    /\ \A i \in Reqs : Awaiting(req[i]) ~> req[i].pc = "done"

(* ---------------------------------------------------------------------- *)
(* Properties of disabled schemas                                          *)
(* ---------------------------------------------------------------------- *)
\* C20: a disabled schema is never invoked: a request that enters a
\* middleware and has a schema function called is handled by a schema object
\* that the registry holds at that moment, whether the middleware was built
\* with an explicit name or resolved its schema from an earlier request.
C20_DisabledNeverInvoked ==
    [][\A i \in Reqs :
          (/\ StartsOn(i)
           /\ Len(req'[i].calls) > 0)
          => req'[i].schema \in Registered]_vars

====
